---- MODULE Spec2Model ----
(***************************************************************************)
(* Model of the ffldb recovery tool of btcd (Stash-Crypto fork):           *)
(*   - the flat-file scanner  scanner.getNextBlock                         *)
(*   - the replay driver      recoverDB, with the callback of RecoverDB    *)
(*   - the staging protocol   recoverDatabase (cmd "recover")              *)
(*                                                                         *)
(* Three specifications share the variables:                               *)
(*   Spec        the replay driver running over a flat-file sequence       *)
(*   SpecScan    the scanner advanced repeatedly from the fresh cursor     *)
(*   SpecStaging recoverDatabase run (and re-run) over a data directory    *)
(*                                                                         *)
(* File sizes, offsets and counts stay far below 2^32 here, so the uint32  *)
(* fields are plain naturals.                                              *)
(***************************************************************************)
EXTENDS Integers, Sequences, FiniteSets, TLC

\* ------------------------------------------------------------------ bounds

\* Largest number of records in the whole flat-file sequence.
MaxRecs == 3

\* Per-record metadata overhead added to the raw block length.
OverheadLen == 12

\* Raw block payload lengths the records are drawn from.
RawLens == {88, 188}

\* Bytes a file may hold past its last record (0: the records fill the file).
Slacks == {0, 40}

\* What a record on disk is:
\*   ok           readable, decodes as a block
\*   undecodable  readable (framing and checksum fine), fails to decode
\*   corrupt      the read primitive reports database.ErrCorruption
\*   ioerr        the read primitive reports another database error
Kinds == {"ok", "undecodable", "corrupt", "ioerr"}

\* Raw lengths of readable records too short to hold a block header.
ShortLens == {8}

Records ==
    [kind : Kinds, raw : RawLens] \cup [kind : {"undecodable"}, raw : ShortLens]

\* RecoverDB: the block cadence of the status reports.
BlocksReportInterval == 10000

\* ------------------------------------------------------------------ errors

\* Go error values: dbErr tells whether the value is a database.Error.
Nil == [dbErr |-> FALSE, code |-> "nil"]
ErrCorruption == [dbErr |-> TRUE, code |-> "ErrCorruption"]
ErrDriverSpecific == [dbErr |-> TRUE, code |-> "ErrDriverSpecific"]
ErrRuleViolation == [dbErr |-> FALSE, code |-> "RuleError"]

\* Errors the read primitive can give where no record starts.
TailErrs == {ErrCorruption, ErrDriverSpecific}

\* Errors the callback can return (chain.ProcessBlock writes to the new
\* database, so a database.Error, ErrCorruption included, is possible).
AcceptErrs == {ErrRuleViolation, ErrCorruption}

\* Mutant: tests for the wrong error code.
isDbErrCorruptionWrongCode(err) == err.dbErr /\ err.code = "ErrBucketNotFound"

isDbErrCorruption(err) == err.dbErr /\ err.code = "ErrCorruption"

\* ------------------------------------------------------------- flat files

\* A file is [recs : Seq(Records), slack : Nat]; file number n is files[n+1].

RECURSIVE SumLen(_, _)
\* Length in bytes of the first n records of recs.
SumLen(recs, n) ==
    IF n = 0 THEN 0 ELSE SumLen(recs, n - 1) + recs[n].raw + OverheadLen

FileSize(file) == SumLen(file.recs, Len(file.recs)) + file.slack

FileExists(fs, n) == n + 1 \in 1..Len(fs)

\* Index of the record of file starting at byte offset off, 0 when none does.
RecIndexAt(file, off) ==
    IF \E i \in 1..Len(file.recs) : SumLen(file.recs, i - 1) = off
    THEN CHOOSE i \in 1..Len(file.recs) : SumLen(file.recs, i - 1) = off
    ELSE 0

RECURSIVE RecsBefore(_, _)
\* Number of records in file numbers 0..n-1.
RecsBefore(fs, n) ==
    IF n = 0 THEN 0 ELSE RecsBefore(fs, n - 1) + Len(fs[n].recs)

NumRecs(fs) == RecsBefore(fs, Len(fs))

\* Logical position (1 = genesis) of the record at (fileNum, fileOff), 0 when
\* no record starts there.
PosAt(fs, fileNum, fileOff) ==
    IF ~FileExists(fs, fileNum) THEN 0
    ELSE LET i == RecIndexAt(fs[fileNum + 1], fileOff)
         IN  IF i = 0 THEN 0 ELSE RecsBefore(fs, fileNum) + i

RECURSIVE Flatten(_, _)
\* The records of file numbers 0..n-1 in physical order.
Flatten(fs, n) ==
    IF n = 0 THEN << >> ELSE Flatten(fs, n - 1) \o fs[n].recs

AllRecs(fs) == Flatten(fs, Len(fs))

RECURSIVE Split(_, _, _)
\* The files made of recs[from..], cut after the positions in cuts.
Split(recs, cuts, from) ==
    IF from > Len(recs) THEN << >>
    ELSE LET ends == {c \in cuts \cup {Len(recs)} : c >= from}
             e == CHOOSE c \in ends : \A d \in ends : c <= d
         IN  << [recs |-> SubSeq(recs, from, e), slack |-> 0] >>
                 \o Split(recs, cuts, e + 1)

\* fs with slack extra bytes at the end of file number padded - 1 (0: none).
Pad(fs, padded, slack) ==
    [j \in 1..Len(fs) |->
        IF j = padded THEN [fs[j] EXCEPT !.slack = slack] ELSE fs[j]]

\* ---------------------------------------------------------------- scanner

\* type scanner: bound is s.s # nil; a fileLen of 0 means "not known yet".
Scanner == [bound : BOOLEAN, fileNum : Nat, fileOff : Nat, fileLen : Nat]
EmptyScanner == [bound |-> FALSE, fileNum |-> 0, fileOff |-> 0, fileLen |-> 0]
FreshScanner == [bound |-> TRUE, fileNum |-> 0, fileOff |-> 0, fileLen |-> 0]

\* blockLocation{}
NoLocation == [blockFileNum |-> 0, fileOffset |-> 0, blockLen |-> 0]

\* A *btcutil.Block: pos is the logical position of the record its bytes
\* came from, decoded whether Deserialize filled it in. NoBlock is nil.
NoBlock == [pos |-> 0, decoded |-> FALSE]

getNextLocation(s) ==
    [blockFileNum |-> s.fileNum, fileOffset |-> s.fileOff, blockLen |-> 0]

\* blockStore.readBlock: the raw bytes of the record starting at loc, or an
\* error. tailErr is the error the primitive gives where no record starts.
readBlock(fs, loc, tailErr) ==
    LET pos == PosAt(fs, loc.blockFileNum, loc.fileOffset)
        rec == AllRecs(fs)[pos]
    IN  IF pos = 0 THEN [bytes |-> << >>, err |-> tailErr]
        ELSE IF rec.kind = "corrupt"
            THEN [bytes |-> << >>, err |-> ErrCorruption]
        ELSE IF rec.kind = "ioerr"
            THEN [bytes |-> << >>, err |-> ErrDriverSpecific]
        ELSE [bytes |-> [pos |-> pos, len |-> rec.raw,
                         decodable |-> rec.kind = "ok"],
              err |-> Nil]

\* wire.MsgBlock.Deserialize: fills the message, or fails and leaves it
\* unfilled.
Deserialize(bytes) ==
    IF bytes.decodable
    THEN [msg |-> [pos |-> bytes.pos, decoded |-> TRUE], err |-> Nil]
    ELSE [msg |-> [pos |-> bytes.pos, decoded |-> FALSE],
          err |-> [dbErr |-> FALSE, code |-> "MessageError"]]

\* Mutant: never rolls over to the next file.
AdvanceNoRollover(next, blockLen) ==
    [next EXCEPT !.fileOff = next.fileOff + blockLen]

\* Mutant: rolls over without forgetting the length of the file it leaves.
AdvanceKeepsLen(next, blockLen) ==
    LET moved == [next EXCEPT !.fileOff = next.fileOff + blockLen]
    IN  IF moved.fileOff = moved.fileLen
        THEN [moved EXCEPT !.fileOff = 0, !.fileNum = moved.fileNum + 1]
        ELSE moved

\* The cursor after a record of blockLen bytes was read at next.
Advance(next, blockLen) ==
    LET moved == [next EXCEPT !.fileOff = next.fileOff + blockLen]
    IN  IF moved.fileOff = moved.fileLen
        THEN [moved EXCEPT !.fileLen = 0, !.fileOff = 0,
                           !.fileNum = moved.fileNum + 1]
        ELSE moved

\* Whether getNextBlock on s reaches its readBlock call.
ReadsDisk(fs, s) ==
    s.bound /\ (s.fileLen = 0 => FileExists(fs, s.fileNum))

\* Mutant: the location returned is taken after the cursor has moved.
getNextBlockLocOfNext(fs, s, tailErr) ==
    LET eod == [next |-> EmptyScanner, blk |-> NoBlock, loc |-> NoLocation,
                err |-> Nil]
        next == IF s.fileLen = 0 /\ FileExists(fs, s.fileNum)
                THEN [s EXCEPT !.fileLen = FileSize(fs[s.fileNum + 1])]
                ELSE s
        rd == readBlock(fs, getNextLocation(s), tailErr)
    IN  IF ~s.bound THEN eod
        ELSE IF s.fileLen = 0 /\ ~FileExists(fs, s.fileNum) THEN eod
        ELSE IF rd.err # Nil
            THEN [next |-> EmptyScanner, blk |-> NoBlock, loc |-> NoLocation,
                  err |-> rd.err]
        ELSE LET blockLen == rd.bytes.len + OverheadLen
                 moved == Advance(next, blockLen)
             IN  [next |-> moved,
                  blk |-> Deserialize(rd.bytes).msg,
                  loc |-> [getNextLocation(moved) EXCEPT !.blockLen = blockLen],
                  err |-> Nil]

\* scanner.getNextBlock: (next scanner, block, location, error).
getNextBlock(fs, s, tailErr) ==
    LET eod == [next |-> EmptyScanner, blk |-> NoBlock, loc |-> NoLocation,
                err |-> Nil]
        old == getNextLocation(s)
        next == IF s.fileLen = 0 /\ FileExists(fs, s.fileNum)
                THEN [s EXCEPT !.fileLen = FileSize(fs[s.fileNum + 1])]
                ELSE s
        rd == readBlock(fs, old, tailErr)
    IN  IF ~s.bound THEN eod
        ELSE IF s.fileLen = 0 /\ ~FileExists(fs, s.fileNum) THEN eod
        ELSE IF rd.err # Nil
            THEN [next |-> EmptyScanner, blk |-> NoBlock, loc |-> NoLocation,
                  err |-> rd.err]
        ELSE LET blockLen == rd.bytes.len + OverheadLen
             IN  [next |-> Advance(next, blockLen),
                  blk |-> Deserialize(rd.bytes).msg,
                  loc |-> [old EXCEPT !.blockLen = blockLen],
                  err |-> Nil]

\* ------------------------------------------------------------------ state

VARIABLES
    files,       \* the flat-file sequence on disk
    pc,          \* where the running procedure stands
    sc,          \* recoverDB: the scanner to read from
    scn,         \* recoverDB: the scanner the last getNextBlock returned
    blk,         \* recoverDB: the block the last getNextBlock returned
    location,    \* recoverDB: the location the last getNextBlock returned
    blocksRead,  \* recoverDB: its first result
    err,         \* recoverDB: its second result
    calls,       \* history: the getNextBlock calls, scanner and results
    reads,       \* history: the locations handed to readBlock, in order
    accepted,    \* history: the callback's calls, [blk, loc, res], in order
    bytesRead,   \* RecoverDB's callback: the block lengths it has summed
    cbBlocksRead,  \* RecoverDB's callback: its own blocksRead
    reports,     \* RecoverDB's callback: byte-cadence reports counted
    blocksReports,  \* RecoverDB's callback: block-cadence reports counted
    printed,     \* history: printStatus's arguments, in order
    pathEx,      \* recoverDatabase: whether path exists
    db,          \* what is at dbPath (path/<net>)
    rp,          \* what is at recoveryPath (path/recovery)
    rdb,         \* what is at recoveryDbPath (path/recovery/<net>)
    ret,         \* recoverDatabase: how its last run ended
    entry,       \* history: db, rp, rdb when the current run was entered
    mvRan        \* history: whether the current run ran mv

progressVars == << bytesRead, cbBlocksRead, reports, blocksReports, printed >>

replayVars ==
    << files, sc, scn, blk, location, blocksRead, err, calls, reads,
       accepted, progressVars >>

stagingVars == << pathEx, db, rp, rdb, ret, entry, mvRan >>

vars == << pc, replayVars, stagingVars >>

\* ----------------------------------------------------------- replay driver

\* The histories after getNextBlock was called on s and returned r.
Logged(s, r) ==
    /\ calls' = Append(calls, [s |-> s, next |-> r.next, blk |-> r.blk,
                               loc |-> r.loc, err |-> r.err])
    /\ reads' = IF ReadsDisk(files, s)
                THEN Append(reads, getNextLocation(s))
                ELSE reads

\* Mutant: the first getNextBlock's scanner is dropped with its block.
SkipGenesisKeepsCursor ==
    /\ pc = "start"
    /\ \E tailErr \in TailErrs :
        LET r == getNextBlock(files, sc, tailErr)
        IN  /\ sc' = sc
            /\ err' = r.err
            /\ pc' = IF r.err # Nil THEN "done" ELSE "loop"
            /\ Logged(sc, r)
    /\ blocksRead' = 0
    /\ UNCHANGED << files, scn, blk, location, accepted, progressVars,
                    stagingVars >>

\* Mutant: the first getNextBlock's corruption is tolerated like a later one.
SkipGenesisToleratesCorruption ==
    /\ pc = "start"
    /\ \E tailErr \in TailErrs :
        LET r == getNextBlock(files, sc, tailErr)
        IN  /\ sc' = r.next
            /\ err' = IF isDbErrCorruption(r.err) THEN Nil ELSE r.err
            /\ pc' = IF r.err # Nil THEN "done" ELSE "loop"
            /\ Logged(sc, r)
    /\ blocksRead' = 0
    /\ UNCHANGED << files, scn, blk, location, accepted, progressVars,
                    stagingVars >>

\* recoverDB, "skip genesis block": the first getNextBlock, its block and
\* location dropped.
SkipGenesis ==
    /\ pc = "start"
    /\ \E tailErr \in TailErrs :
        LET r == getNextBlock(files, sc, tailErr)
        IN  /\ sc' = r.next
            /\ err' = r.err
            /\ pc' = IF r.err # Nil THEN "done" ELSE "loop"
            /\ Logged(sc, r)
    /\ blocksRead' = 0
    /\ UNCHANGED << files, scn, blk, location, accepted, progressVars,
                    stagingVars >>

\* Mutant: counts a block only once it was read without an error.
LoopAdvanceCountsReads ==
    /\ pc = "loop"
    /\ \E tailErr \in TailErrs :
        LET r == getNextBlock(files, sc, tailErr)
        IN  /\ scn' = r.next
            /\ blk' = r.blk
            /\ location' = r.loc
            /\ err' = IF isDbErrCorruption(r.err) THEN Nil ELSE r.err
            /\ pc' = IF r.err # Nil \/ r.blk = NoBlock THEN "done" ELSE "accept"
            /\ blocksRead' = IF r.err # Nil THEN blocksRead ELSE blocksRead + 1
            /\ Logged(sc, r)
    /\ UNCHANGED << files, sc, accepted, progressVars, stagingVars >>

\* Mutant: counts a block only once the callback is about to get it.
LoopAdvanceCountsBlocks ==
    /\ pc = "loop"
    /\ \E tailErr \in TailErrs :
        LET r == getNextBlock(files, sc, tailErr)
        IN  /\ scn' = r.next
            /\ blk' = r.blk
            /\ location' = r.loc
            /\ err' = IF isDbErrCorruption(r.err) THEN Nil ELSE r.err
            /\ pc' = IF r.err # Nil \/ r.blk = NoBlock THEN "done" ELSE "accept"
            /\ blocksRead' = IF r.err # Nil \/ r.blk = NoBlock
                             THEN blocksRead ELSE blocksRead + 1
            /\ Logged(sc, r)
    /\ UNCHANGED << files, sc, accepted, progressVars, stagingVars >>

\* recoverDB, the head of the loop: count, read the next block, and leave
\* the loop on an error or on the end of the data.
LoopAdvance ==
    /\ pc = "loop"
    /\ blocksRead' = blocksRead + 1
    /\ \E tailErr \in TailErrs :
        LET r == getNextBlock(files, sc, tailErr)
        IN  /\ scn' = r.next
            /\ blk' = r.blk
            /\ location' = r.loc
            /\ err' = IF isDbErrCorruption(r.err) THEN Nil ELSE r.err
            /\ pc' = IF r.err # Nil \/ r.blk = NoBlock THEN "done" ELSE "accept"
            /\ Logged(sc, r)
    /\ UNCHANGED << files, sc, accepted, progressVars, stagingVars >>

\* Mutant: only the first flat file is counted.
DbSizeFirstFileOnly(fs, fileNum) ==
    IF fileNum = 0 /\ FileExists(fs, fileNum)
    THEN FileSize(fs[fileNum + 1])
    ELSE 0

\* RecoverDB, "Figure out how big this database is": the sizes of the
\* files from fileNum on, up to the first one that is not there.
RECURSIVE DbSize(_, _)
DbSize(fs, fileNum) ==
    IF FileExists(fs, fileNum)
    THEN FileSize(fs[fileNum + 1]) + DbSize(fs, fileNum + 1)
    ELSE 0

\* RecoverDB: reportInterval, fixed before the replay starts.
reportInterval == DbSize(files, 0) \div 100

\* printStatus's arguments when the callback, having counted b bytes and
\* n blocks, finds the cadence counter behind the quotient.
Status(due, b, n) ==
    IF due THEN << [bytesRead |-> b, blocksRead |-> n] >> ELSE << >>

\* RecoverDB's callback up to chain.ProcessBlock: count the block, report
\* at either cadence.  The first quotient panics when reportInterval is 0,
\* with both counters already advanced.
ReportProgress ==
    LET b == bytesRead + location.blockLen
        n == cbBlocksRead + 1
    IN  /\ bytesRead' = b
        /\ cbBlocksRead' = n
        /\ IF reportInterval = 0
           THEN UNCHANGED << reports, blocksReports, printed >>
           ELSE LET byBytes == b \div reportInterval > reports
                    byBlocks == n \div BlocksReportInterval > blocksReports
                IN  /\ reports' = IF byBytes THEN b \div reportInterval
                                  ELSE reports
                    /\ blocksReports' = IF byBlocks
                                        THEN n \div BlocksReportInterval
                                        ELSE blocksReports
                    /\ printed' = printed \o Status(byBytes, b, n)
                                          \o Status(byBlocks, b, n)

\* Mutant: a block the callback rejects is skipped and the loop goes on.
AcceptSkipsRejected ==
    /\ pc = "accept"
    /\ ReportProgress
    /\ IF reportInterval = 0
       THEN pc' = "panic" /\ UNCHANGED << accepted, err, sc >>
       ELSE \E res \in {Nil} \cup AcceptErrs :
            /\ accepted' = Append(accepted, [blk |-> blk, loc |-> location,
                                             res |-> res])
            /\ err' = res
            /\ pc' = "loop"
            /\ sc' = scn
    /\ UNCHANGED << files, scn, blk, location, blocksRead, calls, reads,
                    stagingVars >>

\* Mutant: the scanner moves on although the callback rejected the block.
AcceptMovesOnRejection ==
    /\ pc = "accept"
    /\ ReportProgress
    /\ IF reportInterval = 0
       THEN pc' = "panic" /\ UNCHANGED << accepted, err, sc >>
       ELSE \E res \in {Nil} \cup AcceptErrs :
            /\ accepted' = Append(accepted, [blk |-> blk, loc |-> location,
                                             res |-> res])
            /\ err' = res
            /\ pc' = IF res # Nil THEN "done" ELSE "loop"
            /\ sc' = scn
    /\ UNCHANGED << files, scn, blk, location, blocksRead, calls, reads,
                    stagingVars >>

\* recoverDB, the rest of the loop: hand the block to the callback, which
\* is RecoverDB's: it reports progress and gives the block to
\* chain.ProcessBlock; stop with its error, or move the scanner on.
Accept ==
    /\ pc = "accept"
    /\ ReportProgress
    /\ IF reportInterval = 0
       THEN pc' = "panic" /\ UNCHANGED << accepted, err, sc >>
       ELSE \E res \in {Nil} \cup AcceptErrs :
            /\ accepted' = Append(accepted, [blk |-> blk, loc |-> location,
                                             res |-> res])
            /\ err' = res
            /\ IF res # Nil
               THEN pc' = "done" /\ sc' = sc
               ELSE pc' = "loop" /\ sc' = scn
    /\ UNCHANGED << files, scn, blk, location, blocksRead, calls, reads,
                    stagingVars >>

\* RecoverDB's counters when it hands its callback to recoverDB.
NoProgress ==
    /\ bytesRead = 0
    /\ cbBlocksRead = 0
    /\ reports = 0
    /\ blocksReports = 0
    /\ printed = << >>

\* The data directory while no recoverDatabase runs in the model.
NoStaging ==
    /\ pathEx = TRUE
    /\ db = "absent"
    /\ rp = "dir"
    /\ rdb = "orig"
    /\ ret = "none"
    /\ entry = [db |-> "absent", rp |-> "dir", rdb |-> "orig"]
    /\ mvRan = FALSE

\* Every flat-file sequence of at most MaxRecs records: each file holds at
\* least one record (the store creates a file when it writes a record to
\* it), at most one file has slack.
FilesOf(R) ==
    \E n \in 0..MaxRecs :
        \E recs \in [1..n -> R], cuts \in SUBSET (1..(n - 1)) :
            \E padded \in 0..(Cardinality(cuts) + (IF n = 0 THEN 0 ELSE 1)),
               slack \in Slacks :
                files = Pad(Split(recs, cuts, 1), padded, slack)

InitFiles == FilesOf(Records)

Init ==
    /\ InitFiles
    /\ pc = "start"
    /\ sc = FreshScanner
    /\ scn = EmptyScanner
    /\ blk = NoBlock
    /\ location = NoLocation
    /\ blocksRead = 0
    /\ err = Nil
    /\ calls = << >>
    /\ reads = << >>
    /\ accepted = << >>
    /\ NoProgress
    /\ NoStaging

Next ==
    \/ SkipGenesis
    \/ LoopAdvance
    \/ Accept

Spec == Init /\ [][Next]_vars

\* The records of the runs checked for termination: every kind, one length.
LiveRecords == [kind : Kinds, raw : {88}]

InitLive ==
    /\ FilesOf(LiveRecords)
    /\ pc = "start"
    /\ sc = FreshScanner
    /\ scn = EmptyScanner
    /\ blk = NoBlock
    /\ location = NoLocation
    /\ blocksRead = 0
    /\ err = Nil
    /\ calls = << >>
    /\ reads = << >>
    /\ accepted = << >>
    /\ NoProgress
    /\ NoStaging

\* The replay is one sequential Go routine: while it has a next statement,
\* that statement runs.
SpecLive == InitLive /\ [][Next]_vars /\ WF_vars(Next)

\* ------------------------------------------------------------ scanner runs

\* The caller's step: advance the scanner it holds and keep the scanner
\* that comes back, until a call fails or one call past the end of the data.
ScanStep ==
    /\ pc = "scan"
    /\ \E tailErr \in TailErrs :
        LET r == getNextBlock(files, sc, tailErr)
        IN  /\ sc' = r.next
            /\ blk' = r.blk
            /\ location' = r.loc
            /\ err' = r.err
            /\ pc' = IF r.err # Nil \/ ~sc.bound THEN "scanned" ELSE "scan"
            /\ Logged(sc, r)
    /\ UNCHANGED << files, scn, blocksRead, accepted, progressVars,
                    stagingVars >>

InitScan ==
    /\ InitFiles
    /\ pc = "scan"
    /\ sc = FreshScanner
    /\ scn = EmptyScanner
    /\ blk = NoBlock
    /\ location = NoLocation
    /\ blocksRead = 0
    /\ err = Nil
    /\ calls = << >>
    /\ reads = << >>
    /\ accepted = << >>
    /\ NoProgress
    /\ NoStaging

NextScan == ScanStep

SpecScan == InitScan /\ [][NextScan]_vars

\* ---------------------------------------------------------------- staging

\* What a directory entry of the data directory can be:
\*   absent    nothing there
\*   orig      the original database, its flat files complete
\*   damaged   the original database with some of its files deleted
\*   empty     an empty directory
\*   partial   a new database that is not complete
\*   rebuilt   the new database, complete
\*   dir       (recoveryPath) a directory
\*   file      (recoveryPath) something that is not a directory
DbStates == {"absent", "orig", "damaged", "empty", "partial", "rebuilt"}

\* os.Stat(dbPath): nil, or an error that os.IsNotExist accepts.
StatDb == IF db = "absent" THEN "notexist" ELSE "nil"

\* os.Stat(recoveryPath).
StatRecovery == IF rp = "absent" THEN "notexist" ELSE "nil"

\* os.Stat(recoveryDbPath): below something that is not a directory the
\* error is ENOTDIR, which os.IsNotExist does not accept.
StatRecoveryDb ==
    IF rp = "file" THEN "other"
    ELSE IF rp = "absent" \/ rdb = "absent" THEN "notexist"
    ELSE "nil"

\* What is left of a directory when os.RemoveAll fails part of the way.
PartlyRemoved(d) ==
    IF d = "orig" THEN "damaged"
    ELSE IF d = "rebuilt" THEN "partial"
    ELSE d

\* recoverDatabase returns e.
Return(e) == pc' = "idle" /\ ret' = e

\* recoverDatabase is entered: "Does the given path exist?"
Begin ==
    /\ pc = "idle"
    /\ entry' = [db |-> db, rp |-> rp, rdb |-> rdb]
    /\ mvRan' = FALSE
    /\ IF pathEx
       THEN pc' = "ensureDir" /\ ret' = "none"
       ELSE Return("Could not read path.")
    /\ UNCHANGED << replayVars, pathEx, db, rp, rdb >>

\* "Create recovery directory if it does not exist."
EnsureDir ==
    /\ pc = "ensureDir"
    /\ IF StatRecovery = "notexist"
       THEN IF StatDb # "nil"
            THEN Return("stat dbPath") /\ rp' = rp
            ELSE \/ rp' = "dir" /\ pc' = "move" /\ ret' = ret
                 \/ Return("mkdir recoveryPath") /\ rp' = rp
       ELSE pc' = "move" /\ ret' = ret /\ rp' = rp
    /\ UNCHANGED << replayVars, pathEx, db, rdb, entry, mvRan >>

\* Mutant: the database is copied to the recovery directory.
MoveDbCopies ==
    /\ pc = "move"
    /\ IF StatRecoveryDb = "notexist"
       THEN IF StatDb = "notexist"
            THEN /\ Return("Could not find database to recover.")
                 /\ UNCHANGED << db, rdb, mvRan >>
            ELSE \/ /\ rdb' = db
                    /\ db' = db
                    /\ mvRan' = TRUE
                    /\ pc' = "delete" /\ ret' = ret
                 \/ /\ Return("Could not move folder")
                    /\ UNCHANGED << db, rdb, mvRan >>
       ELSE pc' = "delete" /\ ret' = ret /\ UNCHANGED << db, rdb, mvRan >>
    /\ UNCHANGED << replayVars, pathEx, rp, entry >>

\* Mutant: the database is moved without looking for an earlier move.
MoveDbAlways ==
    /\ pc = "move"
    /\ IF StatDb = "notexist"
       THEN /\ Return("Could not find database to recover.")
            /\ UNCHANGED << db, rdb, mvRan >>
       ELSE \/ /\ rdb' = db
               /\ db' = "absent"
               /\ mvRan' = TRUE
               /\ pc' = "delete" /\ ret' = ret
            \/ /\ Return("Could not move folder")
               /\ UNCHANGED << db, rdb, mvRan >>
    /\ UNCHANGED << replayVars, pathEx, rp, entry >>

\* Mutant: the move is skipped, not refused, when dbPath is not there.
MoveDbNoSourceCheck ==
    /\ pc = "move"
    /\ IF StatRecoveryDb = "notexist" /\ StatDb # "notexist"
       THEN \/ /\ rdb' = db
               /\ db' = "absent"
               /\ mvRan' = TRUE
               /\ pc' = "delete" /\ ret' = ret
            \/ /\ Return("Could not move folder")
               /\ UNCHANGED << db, rdb, mvRan >>
       ELSE pc' = "delete" /\ ret' = ret /\ UNCHANGED << db, rdb, mvRan >>
    /\ UNCHANGED << replayVars, pathEx, rp, entry >>

\* "Move database to recovery directory.": mv dbPath recoveryPath, a rename
\* within the data directory, when recoveryDbPath is not there yet.
MoveDb ==
    /\ pc = "move"
    /\ IF StatRecoveryDb = "notexist"
       THEN IF StatDb = "notexist"
            THEN /\ Return("Could not find database to recover.")
                 /\ UNCHANGED << db, rdb, mvRan >>
            ELSE \/ /\ rdb' = db
                    /\ db' = "absent"
                    /\ mvRan' = TRUE
                    /\ pc' = "delete" /\ ret' = ret
                 \/ /\ Return("Could not move folder")
                    /\ UNCHANGED << db, rdb, mvRan >>
       ELSE pc' = "delete" /\ ret' = ret /\ UNCHANGED << db, rdb, mvRan >>
    /\ UNCHANGED << replayVars, pathEx, rp, entry >>

\* "Delete old database if necessary.": os.RemoveAll(dbPath) when dbPath is
\* there.
DeleteOld ==
    /\ pc = "delete"
    /\ IF StatDb = "nil"
       THEN \/ db' = "absent" /\ pc' = "open" /\ ret' = ret
            \/ /\ db' \in {db, PartlyRemoved(db)}
               /\ Return("remove dbPath")
       ELSE db' = db /\ pc' = "open" /\ ret' = ret
    /\ UNCHANGED << replayVars, pathEx, rp, rdb, entry, mvRan >>

\* ffldb.RecoverDB up to its replay: open the staged database (which fails
\* when there is none to open), then create the new one at dbPath, which
\* may fail before, while or after the directory is made.
RebuildOpen ==
    /\ pc = "open"
    /\ \/ pc' = "failed" /\ db' = db
       \/ /\ StatRecoveryDb = "nil"
          /\ \/ /\ pc' = "failed"
                /\ db' \in (IF db = "absent" THEN {"empty", "partial"} ELSE {db})
             \/ pc' = "replay" /\ db' = "partial"
    /\ UNCHANGED << replayVars, pathEx, rp, rdb, ret, entry, mvRan >>

\* ffldb.RecoverDB, its replay: the new database is filled, or an error
\* leaves it as far as it got.
RebuildReplay ==
    /\ pc = "replay"
    /\ \/ pc' = "succeeded" /\ db' = "rebuilt"
       \/ pc' = "failed" /\ db' = "partial"
    /\ UNCHANGED << replayVars, pathEx, rp, rdb, ret, entry, mvRan >>

\* RecoverDB failed: os.Remove(dbPath), which removes an empty directory
\* only, and return the error.
CleanupFailed ==
    /\ pc = "failed"
    /\ db' = IF db = "empty" THEN "absent" ELSE db
    /\ Return("RecoverDB")
    /\ UNCHANGED << replayVars, pathEx, rp, rdb, entry, mvRan >>

\* RecoverDB succeeded: os.Remove(recoveryPath), which removes an empty
\* directory only, and return the count.
CleanupSucceeded ==
    /\ pc = "succeeded"
    /\ rp' = IF rp = "file" \/ (rp = "dir" /\ rdb = "absent")
             THEN "absent" ELSE rp
    /\ Return("nil")
    /\ UNCHANGED << replayVars, pathEx, db, rdb, entry, mvRan >>

\* The process is killed between two steps.
Interrupt ==
    /\ pc \in {"ensureDir", "move", "delete", "open", "replay", "failed",
               "succeeded"}
    /\ Return("killed")
    /\ UNCHANGED << replayVars, pathEx, db, rp, rdb, entry, mvRan >>

\* The replay driver's variables while no replay runs in the model.
NoReplay ==
    /\ files = << >>
    /\ sc = EmptyScanner
    /\ scn = EmptyScanner
    /\ blk = NoBlock
    /\ location = NoLocation
    /\ blocksRead = 0
    /\ err = Nil
    /\ calls = << >>
    /\ reads = << >>
    /\ accepted = << >>
    /\ NoProgress

\* A data directory nobody has run recoverDatabase on: the database, if
\* any, is at dbPath, and path/recovery is absent, an empty directory or
\* something else.
InitStaging ==
    /\ NoReplay
    /\ pc = "idle"
    /\ pathEx \in BOOLEAN
    /\ db \in (IF pathEx THEN {"orig", "absent"} ELSE {"absent"})
    /\ rp \in (IF pathEx THEN {"absent", "dir", "file"} ELSE {"absent"})
    /\ rdb = "absent"
    /\ ret = "none"
    /\ entry = [db |-> db, rp |-> rp, rdb |-> rdb]
    /\ mvRan = FALSE

NextStaging ==
    \/ Begin
    \/ EnsureDir
    \/ MoveDb
    \/ DeleteOld
    \/ RebuildOpen
    \/ RebuildReplay
    \/ CleanupFailed
    \/ CleanupSucceeded
    \/ Interrupt

SpecStaging == InitStaging /\ [][NextStaging]_vars

\* ------------------------------------------------------ claims: vocabulary

N == NumRecs(files)

\* Every record is readable and decodes.
AllValid == \A i \in 1..N : AllRecs(files)[i].kind = "ok"

\* Every record is readable.
AllReadable == \A i \in 1..N : AllRecs(files)[i].kind \in {"ok", "undecodable"}

\* The records of every file exactly fill its length.
WellFormed == \A j \in 1..Len(files) : files[j].slack = 0

\* The callback has succeeded on every block so far.
AcceptAlwaysOk == \A i \in 1..Len(accepted) : accepted[i].res = Nil

\* The file number holding the record at logical position k.
FileOf(k) ==
    CHOOSE n \in 0..(Len(files) - 1) :
        RecsBefore(files, n) < k /\ k <= RecsBefore(files, n + 1)

\* Record k is the first damaged one, and structurally corrupted: all
\* records before it are valid and all files before its own are well-formed.
FirstCorruptAt(k) ==
    /\ k \in 1..N
    /\ AllRecs(files)[k].kind = "corrupt"
    /\ \A i \in 1..(k - 1) : AllRecs(files)[i].kind = "ok"
    /\ \A n \in 0..(FileOf(k) - 1) : files[n + 1].slack = 0

\* The logical position of the record at a location.
PosOf(loc) == PosAt(files, loc.blockFileNum, loc.fileOffset)

\* The location of the record at logical position k.
LocOf(k) ==
    LET n == FileOf(k)
        i == k - RecsBefore(files, n)
    IN  [blockFileNum |-> n,
         fileOffset |-> SumLen(files[n + 1].recs, i - 1),
         blockLen |-> files[n + 1].recs[i].raw + OverheadLen]

\* ------------------------------------------------------------ claims C1-C7

\* C1: over N >= 1 valid records filling their files, with a callback that
\* always succeeds, the callback's calls are on records 2, 3, ... in physical
\* order, each once, and when replay has returned there are exactly N - 1 of
\* them; the genesis record is never handed to the callback.
C1_AcceptsTwoToNInOrder ==
    (N >= 1 /\ AllValid /\ WellFormed /\ AcceptAlwaysOk) =>
        /\ \A i \in 1..Len(accepted) :
            /\ accepted[i].blk = [pos |-> i + 1, decoded |-> TRUE]
            /\ accepted[i].loc = LocOf(i + 1)
        /\ pc = "done" => Len(accepted) = N - 1

C1_Witness ==
    /\ pc = "done"
    /\ N >= 3 /\ Len(files) >= 2
    /\ AllValid /\ WellFormed /\ AcceptAlwaysOk
    /\ Len(accepted) = N - 1

\* What replay does when record k is the first damaged one and is
\* structurally corrupted (the callback succeeding on the records before
\* it): it returns no error, the callback's calls are on records before k
\* only, and no record after k is read.
StopsAtCorruption(k) ==
    /\ pc = "done" => err = Nil
    /\ \A i \in 1..Len(accepted) : accepted[i].blk.pos \in 1..(k - 1)
    /\ \A i \in 1..Len(reads) : PosOf(reads[i]) \in 1..k

\* C2 as stated (k >= 1): violated at k = 1, where replay returns the error.
C2_Original ==
    \A k \in 1..N :
        (FirstCorruptAt(k) /\ AcceptAlwaysOk) => StopsAtCorruption(k)

\* C2 amended: for k >= 2 (a corrupted record after the genesis record),
\* replay returns no error, hands the callback only records before k, and
\* reads no record after k, whatever follows the corruption.
C2_StopsAtCorruptionAfterGenesis ==
    \A k \in 2..N :
        (FirstCorruptAt(k) /\ AcceptAlwaysOk) => StopsAtCorruption(k)

C2_Witness ==
    /\ pc = "done" /\ err = Nil
    /\ N >= 3 /\ FirstCorruptAt(2)
    /\ AllRecs(files)[3].kind = "ok"
    /\ accepted = << >>
    /\ Len(reads) = 2

\* C3 as stated (k >= 1): violated at k = 1, where replay returns
\* blocksRead = 0 together with the error.
C3_Original ==
    \A k \in 1..N :
        (pc = "done" /\ FirstCorruptAt(k) /\ AcceptAlwaysOk) =>
            (blocksRead = k - 1 /\ err = Nil)

\* C3 amended: for k >= 2, replay returns blocksRead = k - 1 and no error.
C3_BlocksReadAtCorruption ==
    \A k \in 2..N :
        (pc = "done" /\ FirstCorruptAt(k) /\ AcceptAlwaysOk) =>
            (blocksRead = k - 1 /\ err = Nil)

C3_Witness ==
    /\ pc = "done" /\ err = Nil
    /\ N >= 3 /\ FirstCorruptAt(3)
    /\ Len(accepted) = 1 /\ AcceptAlwaysOk
    /\ blocksRead = 2

\* C4: blocksRead counts every getNextBlock call of the loop, the last one
\* included: whenever replay returns no error, blocksRead is the number of
\* callback calls plus one, and over N >= 1 valid records with a callback
\* that always succeeds replay returns blocksRead = N and no error.
C4_BlocksReadCountsAttempts ==
    /\ (pc # "start" /\ (pc = "done" => err = Nil)) =>
            blocksRead = Len(calls) - 1
    /\ (pc = "done" /\ err = Nil) => blocksRead = Len(accepted) + 1
    /\ (pc = "done" /\ N >= 1 /\ AllValid /\ WellFormed /\ AcceptAlwaysOk) =>
            (blocksRead = N /\ err = Nil)

C4_Witness ==
    /\ pc = "done" /\ err = Nil
    /\ N >= 3 /\ AllValid /\ WellFormed
    /\ blocksRead = N
    /\ Len(accepted) = N - 1

\* C5: with every existing file well-formed and readable, the scanner
\* advanced from the fresh cursor returns the records in physical order, one
\* per call, each with its own location and no error, and returns the end
\* of the data (no block, no error) on the call after the last record and
\* not before.
C5_EndOfDataAfterLastRecord ==
    (WellFormed /\ AllReadable) =>
        \A i \in 1..Len(calls) :
            /\ calls[i].err = Nil
            /\ i <= N => (calls[i].blk.pos = i /\ calls[i].loc = LocOf(i))
            /\ i > N => calls[i].blk = NoBlock

C5_Witness ==
    /\ WellFormed /\ AllReadable
    /\ N >= 3 /\ Len(files) >= 2
    /\ Len(calls) = N + 1
    /\ calls[N + 1].blk = NoBlock /\ calls[N + 1].err = Nil

\* C6: when the callback fails on a block, replay has returned, with the
\* callback's error, and that call is both the last callback call and the
\* last thing done: one getNextBlock call per callback call plus the one
\* that skipped the genesis record.
C6_RejectedBlockStopsReplay ==
    \A i \in 1..Len(accepted) :
        accepted[i].res # Nil =>
            /\ pc = "done"
            /\ err = accepted[i].res
            /\ i = Len(accepted)
            /\ Len(calls) = i + 1

C6_Witness ==
    /\ pc = "done"
    /\ N >= 3
    /\ Len(accepted) = 1
    /\ accepted[1].res = ErrCorruption
    /\ err = ErrCorruption
    /\ AllValid

\* C7: a record that is read but does not decode makes getNextBlock return
\* an error, and is never handed to the callback. Violated: the result of
\* Deserialize is dropped, and the undecoded block goes to the callback.
C7_UndecodableIsAnError ==
    /\ \A i \in 1..Len(calls) :
        calls[i].blk # NoBlock => calls[i].blk.decoded
    /\ \A i \in 1..Len(accepted) : accepted[i].blk.decoded

\* ----------------------------------------------------------- claims C8-C10

\* The staging path holds the original database.
StagedOrig == rp = "dir" /\ rdb = "orig"

\* The original database is whole at the source or at the staging path.
OrigSafe == db = "orig" \/ StagedOrig

\* A complete database, the original or the rebuilt one, keeps its blocks
\* in flat files below its blocks_ffldb directory.
HoldsFlatFiles(d) == d \in {"orig", "rebuilt"}

\* The current (or last) run was entered with the database already staged.
Reentered == entry.rp = "dir" /\ entry.rdb = "orig"

\* C8: the original database is never lost: once whole at the source or the
\* staging path, it stays whole at one of them, whatever step fails and
\* wherever a run is interrupted. Violated: below a path/recovery that is
\* not a directory the move is skipped and dbPath is removed all the same.
C8_OriginalNeverLost == [][OrigSafe => OrigSafe']_vars

\* C9 as stated: at most one of the source and the staging path holds flat
\* files. Violated once the rebuild has filled the new database at the
\* source path while the staged original is still in place.
C9_Original == ~(HoldsFlatFiles(db) /\ rp = "dir" /\ HoldsFlatFiles(rdb))

\* C9 amended: at most one of the source and the staging path holds the
\* original flat files, whole or in part: they change place by the move
\* only and are never copied.
C9_OriginalInOnePlace == ~(db \in {"orig", "damaged"} /\ StagedOrig)

C9_Witness ==
    /\ pc = "idle" /\ ret = "nil"
    /\ mvRan
    /\ entry.db = "orig" /\ entry.rdb = "absent"
    /\ db = "rebuilt" /\ StagedOrig

\* C10: a run entered with the database already staged does not run the
\* move; its staging steps leave the source, the staging root and the
\* staged database as they were on entry, and up to its end the original
\* stays at the staging path and no second copy appears at the source.
C10_ReentrySkipsMove ==
    Reentered =>
        /\ ~mvRan
        /\ StagedOrig
        /\ db \notin {"orig", "damaged"}
        /\ pc \in {"ensureDir", "move", "delete"} =>
                (db = entry.db /\ rp = entry.rp /\ rdb = entry.rdb)

C10_Witness ==
    /\ Reentered
    /\ entry.db = "partial"
    /\ pc = "delete"
    /\ ~mvRan
    /\ db = "partial" /\ StagedOrig

\* ------------------------------------------------------ claims C11-C13, C18

\* recoverDatabase has returned e from the run entered last.
Returned(e) == pc = "idle" /\ ret = e

\* The errors that say a path was not found.
NotFoundRets ==
    {"Could not read path.", "stat dbPath",
     "Could not find database to recover."}

\* C11: after recover has returned successfully the staging root does not
\* exist. Violated: os.Remove(recoveryPath) cannot remove the directory
\* that still holds the staged database.
C11_StagingRootRemoved == Returned("nil") => rp = "absent"

\* C12: when recover returns the rebuild's error, the source path does not
\* exist. Violated: os.Remove(dbPath) cannot remove a new database that
\* already has contents.
C12_PartialDatabaseRemoved == Returned("RecoverDB") => db = "absent"

\* C13 as stated: a run entered with no source path ends with a not-found
\* error. Violated by a run entered with the database already staged, which
\* skips the move and rebuilds.
C13_Original ==
    (pc = "idle" /\ ret \notin {"none", "killed"} /\ entry.db = "absent") =>
        ret \in NotFoundRets

\* C13 amended: a run entered with no source path and with the staging root
\* absent, or a directory that does not hold the database, ends with a
\* not-found error and leaves the data directory as it was.
C13_NotFoundUnlessStaged ==
    ( /\ pc = "idle" /\ ret \notin {"none", "killed"}
      /\ entry.db = "absent"
      /\ entry.rp = "absent" \/ (entry.rp = "dir" /\ entry.rdb = "absent") ) =>
        /\ ret \in NotFoundRets
        /\ db = entry.db /\ rp = entry.rp /\ rdb = entry.rdb

C13_Witness ==
    /\ Returned("Could not find database to recover.")
    /\ pathEx
    /\ entry = [db |-> "absent", rp |-> "dir", rdb |-> "absent"]
    /\ db = "absent" /\ rp = "dir" /\ rdb = "absent"

\* C18: whenever the rebuild starts, the source path does not exist and the
\* staging path holds the database to replay. Violated: below a
\* path/recovery that is not a directory the rebuild starts with nothing
\* staged (the run of C8).
C18_RebuildStartsClean == pc = "open" => (db = "absent" /\ StagedOrig)

\* --------------------------------------------------------- claims C15-C17

\* The i-th getNextBlock call read a record and returned it.
ReadOk(i) == calls[i].err = Nil /\ calls[i].blk # NoBlock

\* The size on disk of the file the i-th call's scanner stands in.
FileSizeAt(i) == FileSize(files[calls[i].s.fileNum + 1])

\* C15: after a record of total length L was read at (f, o) in a file of
\* length len, the scanner returned is (f + 1, 0, length unknown) when
\* o + L = len, and (f, o + L, len) otherwise.
C15_RollsOverAtFileEnd ==
    \A i \in 1..Len(calls) :
        ReadOk(i) =>
            LET s == calls[i].s
                L == PosAt(files, s.fileNum, s.fileOff)
                total == AllRecs(files)[L].raw + OverheadLen
            IN  calls[i].next =
                    IF s.fileOff + total = FileSizeAt(i)
                    THEN [bound |-> TRUE, fileNum |-> s.fileNum + 1,
                          fileOff |-> 0, fileLen |-> 0]
                    ELSE [bound |-> TRUE, fileNum |-> s.fileNum,
                          fileOff |-> s.fileOff + total,
                          fileLen |-> FileSizeAt(i)]

C15_Witness ==
    \E i, j \in 1..Len(calls) :
        /\ ReadOk(i) /\ ReadOk(j)
        /\ calls[i].s.fileNum = 0 /\ calls[j].s.fileNum = 0
        /\ calls[i].next = [bound |-> TRUE, fileNum |-> 0,
                            fileOff |-> calls[i].loc.blockLen,
                            fileLen |-> FileSizeAt(i)]
        /\ calls[j].s = calls[i].next
        /\ calls[j].next = [bound |-> TRUE, fileNum |-> 1, fileOff |-> 0,
                            fileLen |-> 0]

\* C16: a successful getNextBlock returns the location of the record just
\* read: the file number and offset of the scanner it was called on, and
\* the raw length plus 12; the scanner returned stands that many bytes
\* further unless it rolled over; and the scanner it was called on is the
\* caller's, unchanged, when the block goes to the callback.
C16_LocationOfRecordRead ==
    /\ \A i \in 1..Len(calls) :
        ReadOk(i) =>
            LET s == calls[i].s
                r == calls[i]
            IN  /\ r.loc.blockFileNum = s.fileNum
                /\ r.loc.fileOffset = s.fileOff
                /\ r.loc.blockLen =
                       AllRecs(files)[r.blk.pos].raw + OverheadLen
                /\ r.blk.pos = PosAt(files, s.fileNum, s.fileOff)
                /\ r.next.fileNum = s.fileNum =>
                       r.next.fileOff = s.fileOff + r.loc.blockLen
    /\ pc = "accept" =>
        /\ sc = calls[Len(calls)].s
        /\ location = calls[Len(calls)].loc
        /\ scn = calls[Len(calls)].next

C16_Witness ==
    /\ pc = "accept"
    /\ Len(calls) = 3
    /\ sc.fileOff > 0
    /\ location.fileOffset = sc.fileOff
    /\ location.blockLen = 188 + OverheadLen
    /\ scn.fileNum = sc.fileNum
    /\ scn.fileOff = sc.fileOff + location.blockLen

\* C17: when the first getNextBlock, the one that skips the genesis record,
\* returns an error, structural corruption included, replay has returned
\* blocksRead = 0 and that error, after that one call and without a call of
\* the callback.
C17_FirstAdvanceErrorAborts ==
    (Len(calls) >= 1 /\ calls[1].err # Nil) =>
        /\ pc = "done"
        /\ blocksRead = 0
        /\ err = calls[1].err
        /\ Len(calls) = 1
        /\ accepted = << >>

C17_Witness ==
    /\ pc = "done"
    /\ N >= 2
    /\ AllRecs(files)[1].kind = "corrupt"
    /\ AllRecs(files)[2].kind = "ok"
    /\ err = ErrCorruption
    /\ blocksRead = 0
    /\ Len(calls) = 1

\* --------------------------------------------------------- claims C14, C20

\* The lengths of the first n blocks handed to the callback.
RECURSIVE SumBlockLen(_)
SumBlockLen(n) ==
    IF n = 0 THEN 0 ELSE SumBlockLen(n - 1) + accepted[n].loc.blockLen

\* C14: at every status report, bytesRead is the sum of the record lengths
\* of the blocks handed to the callback so far and lies between 0 and the
\* summed size of all flat files; the callback's byte counter never passes
\* that size.
C14_ReportsWithinTotal ==
    /\ \A i \in 1..Len(printed) :
        /\ printed[i].blocksRead \in 1..Len(accepted)
        /\ printed[i].bytesRead = SumBlockLen(printed[i].blocksRead)
        /\ 0 <= printed[i].bytesRead
        /\ printed[i].bytesRead <= DbSize(files, 0)
    /\ bytesRead <= DbSize(files, 0)

C14_Witness ==
    /\ Len(files) = 2
    /\ DbSize(files, 0) = 400
    /\ Len(printed) = 2
    /\ printed[1] = [bytesRead |-> 100, blocksRead |-> 1]
    /\ printed[2] = [bytesRead |-> 300, blocksRead |-> 2]

\* C20: whenever the callback is invoked for a block, reportInterval is
\* not 0, and the callback never panics on its first quotient.
C20_NoDivisionByZero ==
    /\ pc = "accept" => reportInterval # 0
    /\ pc # "panic"

\* --------------------------------------------------------------- claim C19

\* Scanner a stands after scanner b in (fileNum, fileOff) order.
Greater(a, b) ==
    \/ a.fileNum > b.fileNum
    \/ a.fileNum = b.fileNum /\ a.fileOff > b.fileOff

\* recoverDB has returned, or its callback has panicked.
Stopped == pc \in {"done", "panic"}

\* C19: replay terminates on every finite flat-file sequence, whatever the
\* callback answers and wherever records are corrupt or files are longer
\* than their records: an iteration of the loop stops the loop or leaves
\* recoverDB's scanner strictly greater in (fileNum, fileOff) order, and
\* the scanner is replaced in the loop only after the callback returned nil.
C19_ReplayTerminates ==
    /\ [][ /\ pc = "loop" => (pc' \in {"accept", "done"} /\ sc' = sc)
           /\ pc = "accept" => (Stopped' \/ (pc' = "loop" /\ Greater(sc', sc)))
           /\ (pc # "start" /\ sc' # sc) =>
                  /\ pc = "accept"
                  /\ accepted' = Append(accepted, [blk |-> blk,
                                                   loc |-> location,
                                                   res |-> Nil])
                  /\ sc' = scn ]_vars
    /\ <>Stopped

C19_Witness ==
    /\ pc = "done"
    /\ Len(files) = 2
    /\ Len(accepted) = 2
    /\ AcceptAlwaysOk
    /\ accepted[1].loc.blockFileNum = 0
    /\ accepted[2].loc.blockFileNum = 1
    /\ Greater(sc, calls[3].s)
    /\ Greater(calls[3].s, calls[2].s)

====
